---------------------------- MODULE Spec2Model ----------------------------
(***************************************************************************)
(* moarsql: a chain of selects, pairwise joined by named keys, is rendered *)
(* as one nested ClickHouse statement (src/src/main.rs).                   *)
(*                                                                         *)
(* Strings are TLA+ strings.  A text (a String that is being built with    *)
(* push_str / format!) is the sequence of its lines, i.e. the text split   *)
(* at "\n"; pushing a fragment glues the fragment's first line to the      *)
(* text's last line.  Option<T> is a sequence of length 0 (None) or 1      *)
(* (Some).  Result<T, Error> is a record with the field ok.                *)
(***************************************************************************)
EXTENDS Integers, Sequences, FiniteSets, Bags, TLC

VARIABLES
    pc,               \* where main (or the caller of the Statement methods) is
    input,            \* what main finds at opt.filepath
    opt,              \* CliOpt: indent, reverse_nesting
    statement_config, \* Option<StatementConfig>
    statement,        \* Option<Statement>
    validated,        \* Option<outcome of Statement::validate>
    reverse_nesting,  \* argument of the running clickhouse_sql call
    selects_working,  \* clickhouse_sql's clone of self.selects
    joins_working,    \* clickhouse_sql's clone of self.joins
    stack,            \* sql_subquery invocations suspended at their recursive call
    indent_level,     \* indent_level of the invocation about to be entered
    ret,              \* text returned by the sql_subquery invocation that returned last
    invocations,      \* sql_subquery invocations entered by the running call
    sql,              \* Option<text returned by the last clickhouse_sql call>
    results,          \* per mode: Option<text of the last finished call in that mode>
    stdout,           \* lines printed so far
    failure           \* Option<error main returned>

vars == <<pc, input, opt, statement_config, statement, validated, reverse_nesting, selects_working,
          joins_working, stack, indent_level, ret, invocations, sql, results,
          stdout, failure>>

(***************************************************************************)
(* Bounds of the model.                                                    *)
(***************************************************************************)
MaxSelects == 3
MaxJoins == 2

None == <<>>
Some(v) == <<v>>
Ok(v) == [ok |-> TRUE, val |-> v]
Err(msg) == [ok |-> FALSE, err |-> msg]

(***************************************************************************)
(* std::str and itertools helpers.                                         *)
(***************************************************************************)
RECURSIVE Repeat(_, _)
Repeat(s, n) == IF n = 0 THEN "" ELSE s \o Repeat(s, n - 1)

StartsWith(s, p) == Len(s) >= Len(p) /\ SubSeq(s, 1, Len(p)) = p

EndsWith(s, p) == Len(s) >= Len(p) /\ SubSeq(s, Len(s) - Len(p) + 1, Len(s)) = p

\* Index of the first occurrence of the non-empty pattern d in s, 0 if none.
Find(s, d) ==
    LET hits == {i \in 1..(Len(s) - Len(d) + 1) : SubSeq(s, i, i + Len(d) - 1) = d}
    IN  IF hits = {} THEN 0 ELSE CHOOSE i \in hits : \A j \in hits : i <= j

RECURSIVE Split(_, _)
Split(s, d) ==
    LET i == Find(s, d)
    IN  IF i = 0 THEN <<s>>
        ELSE <<SubSeq(s, 1, i - 1)>> \o Split(SubSeq(s, i + Len(d), Len(s)), d)

IsWhitespace(c) == c \in {" ", "\t", "\n", "\r"}

RECURSIVE TrimStart(_)
TrimStart(s) ==
    IF Len(s) > 0 /\ IsWhitespace(SubSeq(s, 1, 1))
    THEN TrimStart(SubSeq(s, 2, Len(s)))
    ELSE s

RECURSIVE TrimEnd(_)
TrimEnd(s) ==
    IF Len(s) > 0 /\ IsWhitespace(SubSeq(s, Len(s), Len(s)))
    THEN TrimEnd(SubSeq(s, 1, Len(s) - 1))
    ELSE s

Trim(s) == TrimEnd(TrimStart(s))

RECURSIVE TrimEndMatches(_, _)
TrimEndMatches(s, p) ==
    IF EndsWith(s, p) THEN TrimEndMatches(SubSeq(s, 1, Len(s) - Len(p)), p) ELSE s

\* push_str on a text kept as its lines (the empty String is <<"">>).
Push(text, fragment) ==
    SubSeq(text, 1, Len(text) - 1)
    \o <<text[Len(text)] \o fragment[1]>>
    \o Tail(fragment)

\* str::trim_start on a text: "\n" is whitespace too.
RECURSIVE TextTrimStart(_)
TextTrimStart(text) ==
    IF Len(text) > 1 /\ TrimStart(text[1]) = ""
    THEN TextTrimStart(Tail(text))
    ELSE <<TrimStart(text[1])>> \o Tail(text)

RECURSIVE TextTrimEnd(_)
TextTrimEnd(text) ==
    IF Len(text) > 1 /\ TrimEnd(text[Len(text)]) = ""
    THEN TextTrimEnd(SubSeq(text, 1, Len(text) - 1))
    ELSE SubSeq(text, 1, Len(text) - 1) \o <<TrimEnd(text[Len(text)])>>

\* str::trim_start_matches("(\n") on a text.
RECURSIVE TextTrimStartParen(_)
TextTrimStartParen(text) ==
    IF Len(text) > 1 /\ text[1] = "(" THEN TextTrimStartParen(Tail(text)) ELSE text

\* str::trim_end_matches(")") on a text.
TextTrimEndParen(text) ==
    SubSeq(text, 1, Len(text) - 1) \o <<TrimEndMatches(text[Len(text)], ")")>>

\* itertools::join(items, ",\n" + indent), as lines; the first line carries no indent.
JoinCols(items, indent) ==
    IF items = <<>> THEN <<"">>
    ELSE [i \in 1..Len(items) |->
            (IF i = 1 THEN "" ELSE indent) \o items[i]
            \o (IF i < Len(items) THEN "," ELSE "")]

(***************************************************************************)
(* JoinType.                                                               *)
(***************************************************************************)
JoinType == {"Right", "Left", "Inner", "Outer"}

JoinTypeDefault == "Inner"

JoinTypeDisplay(t) ==
    CASE t = "Right" -> "RIGHT"
      [] t = "Left"  -> "LEFT"
      [] t = "Inner" -> "INNER"
      [] t = "Outer" -> "OUTER"

\* Mutant: the token is matched whatever its case.
JoinTypeFromStr_AnyCase(s) ==
    CASE s \in {"right", "RIGHT", "Right", "rIGHT"} -> Ok("Right")
      [] s \in {"left", "LEFT", "Left", "lEFT"}     -> Ok("Left")
      [] s \in {"inner", "INNER", "Inner", "iNNER"} -> Ok("Inner")
      [] s \in {"outer", "OUTER", "Outer", "oUTER"} -> Ok("Outer")
      [] OTHER -> Err("Could not parse string to JoinType")

JoinTypeFromStr(s) ==
    CASE s \in {"right", "RIGHT"} -> Ok("Right")
      [] s \in {"left", "LEFT"}   -> Ok("Left")
      [] s \in {"inner", "INNER"} -> Ok("Inner")
      [] s \in {"outer", "OUTER"} -> Ok("Outer")
      [] OTHER -> Err("Could not parse string to JoinType")

\* serde: the variant's own name and its two aliases.
JoinTypeDeserialize(s) ==
    CASE s \in {"Right", "right", "RIGHT"} -> Ok("Right")
      [] s \in {"Left", "left", "LEFT"}    -> Ok("Left")
      [] s \in {"Inner", "inner", "INNER"} -> Ok("Inner")
      [] s \in {"Outer", "outer", "OUTER"} -> Ok("Outer")
      [] OTHER -> Err("unknown variant")

(***************************************************************************)
(* ProjectionCol.                                                          *)
(***************************************************************************)
ProjectionColFromStr(s) ==
    LET parts == Split(s, " as ")
    IN  CASE Len(parts) = 2 -> Ok([col |-> Trim(parts[1]), alias |-> Some(Trim(parts[2]))])
          [] Len(parts) = 1 -> Ok([col |-> parts[1], alias |-> None])
          [] OTHER -> Err("could not parse projection col: " \o s)

SqlString(p) == IF p.alias # None THEN p.col \o " as " \o p.alias[1] ELSE p.col

Aliased(p) == IF p.alias # None THEN p.alias[1] ELSE p.col

AliasedProjections(select) ==
    [i \in 1..Len(select.projections) |-> Aliased(select.projections[i])]

ProjectionsSql(select) ==
    [i \in 1..Len(select.projections) |-> SqlString(select.projections[i])]

(***************************************************************************)
(* Select and the conversions from the configuration.                      *)
(***************************************************************************)
FirstErr(rs) ==
    LET bad == {i \in 1..Len(rs) : ~rs[i].ok}
    IN  rs[CHOOSE i \in bad : \A j \in bad : i <= j]

\* Iterator<Item = Result<T, E>>::collect::<Result<Vec<T>, E>>()
Collect(rs) ==
    IF \A i \in 1..Len(rs) : rs[i].ok
    THEN Ok([i \in 1..Len(rs) |-> rs[i].val])
    ELSE Err(FirstErr(rs).err)

SelectTryFrom(select_config) ==
    LET projections ==
            Collect([i \in 1..Len(select_config.projections) |->
                        ProjectionColFromStr(select_config.projections[i])])
    IN  IF ~projections.ok THEN projections
        ELSE Ok([table_name   |-> select_config.table_name,
                 projections  |-> projections.val,
                 group_by     |-> select_config.group_by,
                 where_clause |-> select_config.where_clause])

\* The closure mapped over the configured joins.
JoinTryFrom(join_config, global_join_type) ==
    LET join_statement == Split(join_config, "::::")
        join_col == join_statement[1]
        local_join_type ==
            IF Len(join_statement) >= 2
            THEN JoinTypeFromStr(join_statement[2])
            ELSE Ok(global_join_type)
    IN  IF ~local_join_type.ok THEN local_join_type
        ELSE Ok(<<join_col, local_join_type.val>>)

StatementTryFrom(config) ==
    LET selects ==
            Collect([i \in 1..Len(config.selects) |->
                        SelectTryFrom(config.selects[i])])
        configured ==
            IF config.joins = None THEN <<>> ELSE config.joins[1]
        joins ==
            Collect([i \in 1..Len(configured) |->
                        JoinTryFrom(configured[i], config.global_join_type)])
    IN  IF ~selects.ok THEN selects
        ELSE IF ~joins.ok THEN joins
        ELSE Ok([create_table |-> config.create_table,
                 joins        |-> joins.val,
                 selects      |-> selects.val])

\* toml::from_str into StatementConfig: join_type is deserialized by serde,
\* and defaulted when absent.
TomlFromStr(document) ==
    LET global_join_type ==
            IF document.join_type = None THEN Ok(JoinTypeDefault)
            ELSE JoinTypeDeserialize(document.join_type[1])
    IN  IF ~document.wellformed THEN Err("toml: malformed document")
        ELSE IF ~global_join_type.ok THEN Err("toml: " \o global_join_type.err)
        ELSE Ok([create_table     |-> document.create_table,
                 joins            |-> document.joins,
                 selects          |-> document.selects,
                 global_join_type |-> global_join_type.val])

(***************************************************************************)
(* Statement::validate.                                                    *)
(***************************************************************************)
\* usize::MAX.  TLC's integers are 32 bits wide, so the largest of them stands
\* for 2^64 - 1; a Vec holds at most isize::MAX elements, and all that the
\* comparison in validate reads of the value is that no length reaches it.
UsizeMax == 2147483647

\* a - b on usize: a panic with overflow checks (the dev profile), the
\* wrapped value without them (the release profile).
UsizeSub(a, b, overflow_checks) ==
    IF a >= b THEN Ok(a - b)
    ELSE IF overflow_checks THEN Err("attempt to subtract with overflow")
    ELSE Ok(UsizeMax - (b - a) + 1)

Validate(self, overflow_checks) ==
    LET expected == UsizeSub(Len(self.selects), 1, overflow_checks)
    IN  IF ~expected.ok THEN "Panic"
        ELSE IF Len(self.joins) # expected.val THEN "Err"
        ELSE "Ok"

(***************************************************************************)
(* Rendering.                                                              *)
(***************************************************************************)
DEFAULT_INDENT == "  "

SelectSql(select, indent, level) ==
    LET base_indent   == Repeat(indent, level)
        plus_1_indent == Repeat(indent, level + 1)
        plus_2_indent == Repeat(indent, level + 2)
        cols     == Push(<<base_indent \o "(", plus_1_indent \o "SELECT", plus_2_indent>>,
                         JoinCols(ProjectionsSql(select), plus_2_indent))
        from     == Push(cols, <<"", plus_1_indent \o "FROM " \o select.table_name>>)
        group_by == IF select.group_by # None
                    THEN Push(from, <<"", plus_1_indent \o "GROUP BY " \o select.group_by[1]>>)
                    ELSE from
        where    == IF select.where_clause # None
                    THEN Push(group_by,
                              <<"", plus_1_indent \o "WHERE " \o select.where_clause[1]>>)
                    ELSE group_by
    IN  IF select.projections = <<>>
        THEN <<plus_1_indent \o select.table_name, "">>
        ELSE Push(where, <<"", base_indent \o ")">>)

\* The early return for no joins: the select without its parentheses.
BaseCase(select, indent, level) ==
    TextTrimEnd(TextTrimEndParen(TextTrimStartParen(
        TextTrimEnd(TextTrimStart(SelectSql(select, indent, level))))))

\* flat_map over the selects' aliased projections.
RECURSIVE FlatAliased(_)
FlatAliased(selects) ==
    IF selects = <<>> THEN <<>>
    ELSE AliasedProjections(Head(selects)) \o FlatAliased(Tail(selects))

\* Mutant: the filter on col_set is missing.
AllCols_NoFilter(selects) == FlatAliased(selects)

\* filter(|alias| col_set.insert(alias)): keeps the first occurrence of each.
RECURSIVE KeepFirst(_, _)
KeepFirst(names, col_set) ==
    IF names = <<>> THEN <<>>
    ELSE IF Head(names) \in col_set THEN KeepFirst(Tail(names), col_set)
    ELSE <<Head(names)>> \o KeepFirst(Tail(names), col_set \cup {Head(names)})

AllCols(selects) == KeepFirst(FlatAliased(selects), {})

\* "SELECT", the column list and "FROM" of one join level.
Header(selects, indent, level) ==
    LET base_indent   == Repeat(indent, level)
        plus_1_indent == Repeat(indent, level + 1)
        all_cols_str  == Push(<<plus_1_indent>>, JoinCols(AllCols(selects), plus_1_indent))
    IN  Push(Push(<<base_indent \o "SELECT", "">>, all_cols_str),
             <<"", base_indent \o "FROM", "">>)

JoinLine(join_type, indent, level) ==
    <<"", Repeat(indent, level + 1) \o "ALL " \o JoinTypeDisplay(join_type) \o " JOIN", "">>

UsingLine(join_col, indent, level) ==
    <<"", Repeat(indent, level + 1) \o "USING " \o join_col>>

OpenSubquery(indent, level) == <<Repeat(indent, level + 1) \o "(", "">>

CloseSubquery(indent, level) == <<"", Repeat(indent, level + 1) \o ")">>

\* Mutant: the reverse branch renders the popped select at the level of the
\* header instead of one level deeper.
BeforeNested_Shallow(reverse, res, popped, join_type, indent, level) ==
    IF reverse
    THEN Push(Push(res, SelectSql(popped, indent, level)),
              JoinLine(join_type, indent, level))
    ELSE res

\* What sql_subquery pushes between the header and the nested operand.
BeforeNested(reverse, res, popped, join_type, indent, level) ==
    IF reverse
    THEN Push(Push(res, SelectSql(popped, indent, level + 1)),
              JoinLine(join_type, indent, level))
    ELSE res

\* Mutant: the reverse branch forgets its USING line.
AfterNested_NoUsingInReverse(reverse, res, popped, join_type, join_col, indent, level) ==
    IF reverse
    THEN res
    ELSE Push(Push(Push(res, JoinLine(join_type, indent, level)),
                   SelectSql(popped, indent, level + 1)),
              UsingLine(join_col, indent, level))

\* Mutant: the normal branch writes the popped select before the JOIN line.
AfterNested_PoppedBeforeJoin(reverse, res, popped, join_type, join_col, indent, level) ==
    IF reverse
    THEN Push(res, UsingLine(join_col, indent, level))
    ELSE Push(Push(Push(res, SelectSql(popped, indent, level + 1)),
                   JoinLine(join_type, indent, level)),
              UsingLine(join_col, indent, level))

\* What sql_subquery pushes after the nested operand.
AfterNested(reverse, res, popped, join_type, join_col, indent, level) ==
    IF reverse
    THEN Push(res, UsingLine(join_col, indent, level))
    ELSE Push(Push(Push(res, JoinLine(join_type, indent, level)),
                   SelectSql(popped, indent, level + 1)),
              UsingLine(join_col, indent, level))

\* format!("CREATE TABLE {} AS\n(\n{}\n)", create_table, res)
Wrap(create_table, res) ==
    IF create_table # None
    THEN Push(Push(<<"CREATE TABLE " \o create_table[1] \o " AS", "(", "">>, res),
              <<"", ")">>)
    ELSE res

(***************************************************************************)
(* The inputs of the model.                                                *)
(***************************************************************************)
SeqsUpTo(S, n) == UNION {[1..k -> S] : k \in 0..n}

SelectConfig(table_name, projections, group_by, where_clause) ==
    [table_name |-> table_name, projections |-> projections,
     group_by |-> group_by, where_clause |-> where_clause]

GoodSelectConfigs ==
    { SelectConfig("a", <<"val", "id">>, Some("id"), None),
      SelectConfig("b", <<"id", "v as val">>, None, Some("v > 0")),
      SelectConfig("c", <<>>, None, None) }

MainSelectConfigs ==
    { SelectConfig("b", <<"id", " v  as val">>, None, Some("v > 0")),
      SelectConfig("e", <<"a as b as c">>, None, None) }

JoinConfigs == {"id", "val::::left", "id::::Inner", "(id, val)::::OUTER", "id::::cross"}

Documents ==
    [wellformed   : {TRUE},
     create_table : {None, Some("t")},
     joins        : {None} \cup {Some(js) : js \in SeqsUpTo(JoinConfigs, MaxJoins)},
     selects      : SeqsUpTo(MainSelectConfigs, MaxSelects),
     join_type    : {None, Some("left"), Some("lEFT")}]
    \cup
    {[wellformed |-> FALSE, create_table |-> None, joins |-> None,
      selects |-> <<>>, join_type |-> None]}

CliOpts ==
    { [indent |-> None, reverse_nesting |-> FALSE],
      [indent |-> Some("\t"), reverse_nesting |-> TRUE] }

Selects == {SelectTryFrom(sc).val : sc \in GoodSelectConfigs}

Joins == {<<"id", "Inner">>, <<"v", "Left">>}

Statements ==
    [create_table : {None, Some("t")},
     joins        : SeqsUpTo(Joins, MaxJoins),
     selects      : SeqsUpTo(Selects, MaxSelects)]

Indent == IF opt.indent = None THEN DEFAULT_INDENT ELSE opt.indent[1]

(***************************************************************************)
(* main, step by step.                                                     *)
(***************************************************************************)
Idle ==
    /\ validated = None
    /\ reverse_nesting = FALSE
    /\ selects_working = <<>>
    /\ joins_working = <<>>
    /\ stack = <<>>
    /\ indent_level = 0
    /\ ret = <<"">>
    /\ invocations = 0
    /\ sql = None
    /\ results = [m \in BOOLEAN |-> None]
    /\ stdout = <<>>
    /\ failure = None

MainInit ==
    /\ pc = "read"
    /\ input \in {None} \cup {Some(d) : d \in Documents}
    /\ opt \in CliOpts
    /\ statement_config = None
    /\ statement = None
    /\ Idle

composing == <<reverse_nesting, selects_working, joins_working, stack, indent_level,
               ret, invocations, sql, results>>

\* std::fs::read_to_string(&path)?
Read ==
    /\ pc = "read"
    /\ IF input = None
       THEN pc' = "exit_err" /\ failure' = Some("io: cannot read the file")
       ELSE pc' = "toml" /\ UNCHANGED failure
    /\ UNCHANGED <<input, opt, statement_config, statement, validated, composing, stdout>>

\* toml::from_str(&input)?
Toml ==
    /\ pc = "toml"
    /\ LET r == TomlFromStr(input[1])
       IN  IF r.ok
           THEN pc' = "try_into" /\ statement_config' = Some(r.val) /\ UNCHANGED failure
           ELSE pc' = "exit_err" /\ failure' = Some(r.err) /\ UNCHANGED statement_config
    /\ UNCHANGED <<input, opt, statement, validated, composing, stdout>>

\* statement_config.try_into()?
TryInto ==
    /\ pc = "try_into"
    /\ LET r == StatementTryFrom(statement_config[1])
       IN  IF r.ok
           THEN pc' = "validate" /\ statement' = Some(r.val) /\ UNCHANGED failure
           ELSE pc' = "exit_err" /\ failure' = Some(r.err) /\ UNCHANGED statement
    /\ UNCHANGED <<input, opt, statement_config, validated, composing, stdout>>

\* Mutant: the result of validate is dropped instead of returned with "?".
ValidateStep_Unchecked ==
    /\ pc = "validate"
    /\ \E overflow_checks \in BOOLEAN :
         LET r == Validate(statement[1], overflow_checks)
         IN  /\ validated' = Some(r)
             /\ pc' = IF r = "Panic" THEN "panicked" ELSE "compose"
             /\ failure' = failure
    /\ UNCHANGED <<input, opt, statement_config, statement, composing, stdout>>

\* statement.validate()?
ValidateStep ==
    /\ pc = "validate"
    /\ \E overflow_checks \in BOOLEAN :
         LET r == Validate(statement[1], overflow_checks)
         IN  /\ validated' = Some(r)
             /\ pc' = CASE r = "Ok" -> "compose"
                        [] r = "Err" -> "exit_err"
                        [] OTHER -> "panicked"
             /\ failure' = IF r = "Err"
                           THEN Some("joins len must be one less than selects")
                           ELSE failure
    /\ UNCHANGED <<input, opt, statement_config, statement, composing, stdout>>

\* println!("{}", sql)
PrintSql ==
    /\ pc = "composed"
    /\ stdout' = stdout \o sql[1]
    /\ pc' = "exit_ok"
    /\ UNCHANGED <<input, opt, statement_config, statement, validated, composing, failure>>

(***************************************************************************)
(* Statement::clickhouse_sql and the recursion of sql_subquery.            *)
(***************************************************************************)
outside == <<input, opt, statement_config, validated, stdout, failure>>

\* Mutant: the working queues are the Statement's own vectors, taken out of
\* it, rather than clones.
ClickhouseSql_Consuming(reverse) ==
    /\ pc = "compose"
    /\ reverse_nesting' = reverse
    /\ indent_level' = IF statement[1].create_table # None THEN 1 ELSE 0
    /\ selects_working' = statement[1].selects
    /\ joins_working' = statement[1].joins
    /\ statement' = Some([statement[1] EXCEPT !.selects = <<>>, !.joins = <<>>])
    /\ stack' = <<>>
    /\ invocations' = 0
    /\ pc' = "sql_subquery"
    /\ UNCHANGED <<ret, sql, results, outside>>

\* Entry of clickhouse_sql up to the call of sql_subquery.
ClickhouseSql(reverse) ==
    /\ pc = "compose"
    /\ reverse_nesting' = reverse
    /\ indent_level' = IF statement[1].create_table # None THEN 1 ELSE 0
    /\ selects_working' = statement[1].selects
    /\ joins_working' = statement[1].joins
    /\ stack' = <<>>
    /\ invocations' = 0
    /\ pc' = "sql_subquery"
    /\ UNCHANGED <<statement, ret, sql, results, outside>>

\* Mutant: the recursion is entered for a single remaining select too.
Recurses_OffByOne(rest) == Len(rest) >= 1

\* if selects.len() >= 2: the rest of the chain is a nested subquery.
Recurses(rest) == Len(rest) >= 2

\* One invocation of sql_subquery, from its entry to its recursive call or,
\* at the innermost level, to its return.
SqlSubqueryEnter ==
    /\ pc = "sql_subquery"
    /\ invocations' = invocations + 1
    /\ IF joins_working = <<>>
       THEN IF selects_working = <<>>
            THEN \* selects[0]: index out of bounds
                 /\ pc' = "panicked"
                 /\ UNCHANGED <<selects_working, joins_working, stack, indent_level, ret>>
            ELSE /\ ret' = BaseCase(selects_working[1], Indent, indent_level)
                 /\ pc' = "returned"
                 /\ UNCHANGED <<selects_working, joins_working, stack, indent_level>>
       ELSE LET join_col  == Head(joins_working)[1]
                join_type == Head(joins_working)[2]
                header    == Header(selects_working, Indent, indent_level)
            IN  /\ joins_working' = Tail(joins_working)
                /\ IF selects_working = <<>>
                   THEN \* selects.remove(0): removal index out of bounds
                        /\ pc' = "panicked"
                        /\ UNCHANGED <<selects_working, stack, indent_level, ret>>
                   ELSE LET popped == Head(selects_working)
                            rest   == Tail(selects_working)
                            res    == BeforeNested(reverse_nesting, header, popped,
                                                   join_type, Indent, indent_level)
                        IN  IF Recurses(rest)
                            THEN /\ selects_working' = rest
                                 /\ stack' = Append(stack,
                                        [indent_level |-> indent_level,
                                         join_col     |-> join_col,
                                         join_type    |-> join_type,
                                         popped       |-> popped,
                                         res          |-> Push(res,
                                                              OpenSubquery(Indent, indent_level))])
                                 /\ indent_level' = indent_level + 2
                                 /\ pc' = "sql_subquery"
                                 /\ UNCHANGED ret
                            ELSE /\ selects_working' = <<>>
                                 /\ ret' = AfterNested(reverse_nesting,
                                        IF Len(rest) = 1
                                        THEN Push(res, SelectSql(rest[1], Indent,
                                                                 indent_level + 1))
                                        ELSE res,
                                        popped, join_type, join_col, Indent, indent_level)
                                 /\ pc' = "returned"
                                 /\ UNCHANGED <<stack, indent_level>>
    /\ UNCHANGED <<statement, reverse_nesting, sql, results, outside>>

\* A suspended invocation takes the text of its recursive call and runs to
\* its own return.
SqlSubqueryReturn ==
    /\ pc = "returned"
    /\ stack # <<>>
    /\ LET frame == stack[Len(stack)]
           res   == Push(Push(frame.res, ret), CloseSubquery(Indent, frame.indent_level))
       IN  /\ ret' = AfterNested(reverse_nesting, res, frame.popped, frame.join_type,
                                 frame.join_col, Indent, frame.indent_level)
           /\ stack' = SubSeq(stack, 1, Len(stack) - 1)
           /\ indent_level' = frame.indent_level
    /\ UNCHANGED <<pc, statement, reverse_nesting, selects_working, joins_working,
                   invocations, sql, results, outside>>

\* The outermost invocation has returned: the optional CREATE TABLE shell.
ClickhouseSqlReturn ==
    /\ pc = "returned"
    /\ stack = <<>>
    /\ sql' = Some(Wrap(statement[1].create_table, ret))
    /\ results' = [results EXCEPT ![reverse_nesting] = sql']
    /\ pc' = "composed"
    /\ UNCHANGED <<statement, reverse_nesting, selects_working, joins_working, stack,
                   indent_level, ret, invocations, outside>>

\* let sql = statement.clickhouse_sql(&indent, opt.reverse_nesting);
MainCompose == ClickhouseSql(opt.reverse_nesting)

MainNext ==
    \/ Read
    \/ Toml
    \/ TryInto
    \/ ValidateStep
    \/ MainCompose
    \/ SqlSubqueryEnter
    \/ SqlSubqueryReturn
    \/ ClickhouseSqlReturn
    \/ PrintSql

MainSpec == MainInit /\ [][MainNext]_vars

(***************************************************************************)
(* The methods of a Statement, called by a caller that validates it and    *)
(* then renders it any number of times, in either mode.                    *)
(***************************************************************************)
Init ==
    /\ pc = "validate"
    /\ input = None
    /\ opt \in CliOpts
    /\ statement_config = None
    /\ statement \in {Some(st) : st \in Statements}
    /\ Idle

Render == \E reverse \in BOOLEAN : ClickhouseSql(reverse)

Again ==
    /\ pc = "composed"
    /\ pc' = "compose"
    /\ UNCHANGED <<statement, composing, outside>>

Next ==
    \/ ValidateStep
    \/ Render
    \/ SqlSubqueryEnter
    \/ SqlSubqueryReturn
    \/ ClickhouseSqlReturn
    \/ Again

Spec == Init /\ [][Next]_vars

(***************************************************************************)
(* Reading a rendered text.                                                *)
(***************************************************************************)
TheStatement == statement[1]

NSelects == Len(TheStatement.selects)

NJoins == Len(TheStatement.joins)

\* A call of clickhouse_sql on a validated Statement has returned.
Composed == pc = "composed"

\* indent_level of the invocation that renders join i (1-based).
LevelOf(i) == (IF TheStatement.create_table # None THEN 1 ELSE 0) + 2 * (i - 1)

Positions(text, line) == {k \in DOMAIN text : text[k] = line}

Pos(text, line) == CHOOSE k \in Positions(text, line) : TRUE

FromLineOf(i) == Repeat(Indent, LevelOf(i)) \o "FROM"

JoinLineOf(i) ==
    Repeat(Indent, LevelOf(i) + 1) \o "ALL "
    \o JoinTypeDisplay(TheStatement.joins[i][2]) \o " JOIN"

UsingLineOf(i) == Repeat(Indent, LevelOf(i) + 1) \o "USING " \o TheStatement.joins[i][1]

\* Each join level shows once in the text: its FROM, its JOIN and its USING line.
LevelsShow(text) ==
    \A i \in 1..NJoins :
        /\ Cardinality(Positions(text, FromLineOf(i))) = 1
        /\ Cardinality(Positions(text, JoinLineOf(i))) = 1
        /\ Cardinality(Positions(text, UsingLineOf(i))) = 1
        /\ Pos(text, FromLineOf(i)) < Pos(text, JoinLineOf(i))
        /\ Pos(text, JoinLineOf(i)) < Pos(text, UsingLineOf(i))

\* The lines of join level i before and after its JOIN line.
LeftOperand(text, i) ==
    SubSeq(text, Pos(text, FromLineOf(i)) + 1, Pos(text, JoinLineOf(i)) - 1)

RightOperand(text, i) ==
    SubSeq(text, Pos(text, JoinLineOf(i)) + 1, Pos(text, UsingLineOf(i)) - 1)

\* The operand is the select popped at level i, rendered one level deeper.
IsPopped(operand, i) ==
    operand = SelectSql(TheStatement.selects[i], Indent, LevelOf(i) + 1)

\* The operand is the rest of the chain: the sole remaining select at the
\* innermost level, else the parenthesised subquery of level i + 1.
IsRest(text, operand, i) ==
    IF i = NJoins
    THEN operand = SelectSql(TheStatement.selects[i + 1], Indent, LevelOf(i) + 1)
    ELSE /\ Len(operand) >= 2
         /\ operand[1] = Repeat(Indent, LevelOf(i) + 1) \o "("
         /\ operand[Len(operand)] = Repeat(Indent, LevelOf(i) + 1) \o ")"
         /\ \E k \in 2..(Len(operand) - 1) :
               /\ operand[k] = UsingLineOf(i + 1)
               /\ k = Len(operand) - 1
         /\ \E k \in 2..(Len(operand) - 1) : operand[k] = FromLineOf(i + 1)

IsJoinLine(line) ==
    TrimStart(line) \in {"ALL " \o JoinTypeDisplay(t) \o " JOIN" : t \in JoinType}

IsUsingLine(line) == StartsWith(TrimStart(line), "USING ")

(***************************************************************************)
(* C1: for every Statement that passes validate, in both nesting modes and *)
(* with or without create_table, the text returned by clickhouse_sql holds *)
(* exactly joins.len() "ALL <TYPE> JOIN" lines and exactly joins.len()     *)
(* "USING <key>" lines (none when there is a single select).               *)
(***************************************************************************)
C1_JoinAndUsingLines ==
    Composed =>
        /\ Cardinality({k \in DOMAIN sql[1] : IsJoinLine(sql[1][k])}) = NJoins
        /\ Cardinality({k \in DOMAIN sql[1] : IsUsingLine(sql[1][k])}) = NJoins

C1_Witness ==
    /\ Composed
    /\ NJoins = 2
    /\ reverse_nesting
    /\ TheStatement.create_table # None
    /\ Cardinality({k \in DOMAIN sql[1] : IsUsingLine(sql[1][k])}) = 2

(***************************************************************************)
(* C2, as claimed: with reverse nesting off, at every join level the       *)
(* select just popped is emitted before the "ALL <TYPE> JOIN" line and the *)
(* rest of the chain after it; with reverse nesting on the two operands    *)
(* are swapped.                                                            *)
(***************************************************************************)
C2_PoppedIsLeftInNormalMode ==
    Composed =>
        /\ LevelsShow(sql[1])
        /\ \A i \in 1..NJoins :
              IF reverse_nesting
              THEN /\ IsRest(sql[1], LeftOperand(sql[1], i), i)
                   /\ IsPopped(RightOperand(sql[1], i), i)
              ELSE /\ IsPopped(LeftOperand(sql[1], i), i)
                   /\ IsRest(sql[1], RightOperand(sql[1], i), i)

(***************************************************************************)
(* C2, amended: with reverse nesting off, at every join level the rest of  *)
(* the chain (the nested subquery, or the sole remaining select) is        *)
(* emitted before the "ALL <TYPE> JOIN" line and the select just popped    *)
(* after it; with reverse nesting on, the popped select comes first and    *)
(* the rest of the chain second.                                           *)
(***************************************************************************)
C2_PoppedIsRightInNormalMode ==
    Composed =>
        /\ LevelsShow(sql[1])
        /\ \A i \in 1..NJoins :
              IF reverse_nesting
              THEN /\ IsPopped(LeftOperand(sql[1], i), i)
                   /\ IsRest(sql[1], RightOperand(sql[1], i), i)
              ELSE /\ IsRest(sql[1], LeftOperand(sql[1], i), i)
                   /\ IsPopped(RightOperand(sql[1], i), i)

C2_Witness ==
    /\ Composed
    /\ ~reverse_nesting
    /\ NJoins = 2
    /\ TheStatement.selects[1] # TheStatement.selects[2]
    /\ IsPopped(RightOperand(sql[1], 1), 1)
    /\ ~IsPopped(LeftOperand(sql[1], 1), 1)

(***************************************************************************)
(* C3: for a fixed valid Statement, the texts composed with reverse        *)
(* nesting off and on emit the same multiset of table names, of join types *)
(* and of USING keys; in both, join i shows its type and its key at        *)
(* nesting level i, joining the select popped at that level; only the      *)
(* positions of the two operands of each level differ.                     *)
(***************************************************************************)
\* The trimmed lines of the text that satisfy Keep, as a multiset (a bag).
LinesBag(text, Keep(_)) ==
    LET trimmed == [k \in DOMAIN text |-> TrimStart(text[k])]
        kept    == {k \in DOMAIN text : Keep(trimmed[k])}
    IN  [line \in {trimmed[k] : k \in kept} |->
            Cardinality({k \in kept : trimmed[k] = line})]

TableNames == {TheStatement.selects[k].table_name : k \in 1..NSelects}

\* "FROM <table>" of a select with projections, or the bare table name.
IsTableLine(line) == StartsWith(line, "FROM ") \/ line \in TableNames

IsTypeLine(line) == StartsWith(line, "ALL ")

IsKeyLine(line) == StartsWith(line, "USING ")

C3_ModesEmitTheSame ==
    (Composed /\ results[FALSE] # None /\ results[TRUE] # None) =>
        LET normal  == results[FALSE][1]
            reverse == results[TRUE][1]
        IN  /\ LinesBag(normal, IsTableLine) = LinesBag(reverse, IsTableLine)
            /\ LinesBag(normal, IsTypeLine) = LinesBag(reverse, IsTypeLine)
            /\ LinesBag(normal, IsKeyLine) = LinesBag(reverse, IsKeyLine)
            /\ BagCardinality(LinesBag(normal, IsTableLine)) = NSelects
            /\ LevelsShow(normal)
            /\ LevelsShow(reverse)
            /\ \A i \in 1..NJoins :
                  /\ IsPopped(RightOperand(normal, i), i)
                  /\ IsPopped(LeftOperand(reverse, i), i)
                  /\ IsRest(normal, LeftOperand(normal, i), i)
                  /\ IsRest(reverse, RightOperand(reverse, i), i)

C3_Witness ==
    /\ Composed
    /\ results[FALSE] # None
    /\ results[TRUE] # None
    /\ results[FALSE] # results[TRUE]
    /\ NJoins = 2
    /\ TheStatement.joins[1] # TheStatement.joins[2]

(***************************************************************************)
(* C4: at every join level the column list of the outer SELECT is the      *)
(* stable first-occurrence de-duplication of the rendered names (alias if  *)
(* present, else column) of all projections of the selects pending at that *)
(* level (the select popped at the level and every select after it), in   *)
(* select order then projection order: no name is listed twice, and a name *)
(* that two selects project is listed once, where it first occurs.         *)
(***************************************************************************)
RenderedName(p) == IF Len(p.alias) = 1 THEN p.alias[1] ELSE p.col

\* The rendered names of selects i..n, in select order then projection order.
RECURSIVE PendingNames(_)
PendingNames(i) ==
    IF i > NSelects THEN <<>>
    ELSE [k \in 1..Len(TheStatement.selects[i].projections) |->
            RenderedName(TheStatement.selects[i].projections[k])]
         \o PendingNames(i + 1)

FirstIndex(seq, x) == CHOOSE k \in DOMAIN seq : seq[k] = x /\ \A j \in 1..(k - 1) : seq[j] # x

IsStableDedup(cols, names) ==
    /\ \A a, b \in DOMAIN cols : a # b => cols[a] # cols[b]
    /\ {cols[k] : k \in DOMAIN cols} = {names[k] : k \in DOMAIN names}
    /\ \A a, b \in DOMAIN cols :
          a < b => FirstIndex(names, cols[a]) < FirstIndex(names, cols[b])

\* The lines of the text between the SELECT and the FROM of join level i.
ColumnLines(text, i) ==
    LET from   == Pos(text, FromLineOf(i))
        select == CHOOSE k \in 1..(from - 1) :
                    /\ text[k] = Repeat(Indent, LevelOf(i)) \o "SELECT"
                    /\ \A j \in (k + 1)..(from - 1) :
                          text[j] # Repeat(Indent, LevelOf(i)) \o "SELECT"
    IN  SubSeq(text, select + 1, from - 1)

\* The column lines that list cols: one per line, comma-separated.
ListsColumns(lines, cols, i) ==
    IF cols = <<>>
    THEN lines = <<Repeat(Indent, LevelOf(i) + 1)>>
    ELSE lines = [k \in DOMAIN cols |->
                    Repeat(Indent, LevelOf(i) + 1) \o cols[k]
                    \o (IF k < Len(cols) THEN "," ELSE "")]

C4_ColumnListIsStableDedup ==
    Composed =>
        /\ LevelsShow(sql[1])
        /\ \A i \in 1..NJoins :
              \E cols \in SeqsUpTo({PendingNames(i)[k] : k \in DOMAIN PendingNames(i)},
                                    Cardinality({PendingNames(i)[k] : k \in DOMAIN PendingNames(i)})) :
                  /\ IsStableDedup(cols, PendingNames(i))
                  /\ ListsColumns(ColumnLines(sql[1], i), cols, i)

C4_Witness ==
    /\ Composed
    /\ NJoins = 2
    /\ TheStatement.selects[1].table_name = "a"
    /\ TheStatement.selects[2].table_name = "b"
    /\ ColumnLines(sql[1], 1)
         = <<Repeat(Indent, LevelOf(1) + 1) \o "val,", Repeat(Indent, LevelOf(1) + 1) \o "id">>

(***************************************************************************)
(* C5: validate returns Ok exactly when joins.len() == selects.len() - 1   *)
(* and returns an error otherwise, for every number of selects, 0          *)
(* included: no Statement without selects is accepted.                     *)
(***************************************************************************)
C5_ValidateOkIffOneFewerJoin ==
    validated # None =>
        /\ validated[1] = "Ok" <=> NJoins = NSelects - 1
        /\ validated[1] # "Ok" => validated[1] = "Err"

(***************************************************************************)
(* C6: validate fails whenever, for some adjacent pair of selects, the key *)
(* of their join is not the rendered name of a projection of both; no      *)
(* Statement with such a key reaches composition.                          *)
(***************************************************************************)
Projects(select, name) ==
    \E k \in DOMAIN select.projections : RenderedName(select.projections[k]) = name

Unjoinable ==
    \E i \in 1..NJoins :
        /\ i + 1 <= NSelects
        /\ \/ ~Projects(TheStatement.selects[i], TheStatement.joins[i][1])
           \/ ~Projects(TheStatement.selects[i + 1], TheStatement.joins[i][1])

C6_UnjoinableKeyIsRejected ==
    (validated # None /\ Unjoinable) =>
        /\ validated[1] # "Ok"
        /\ pc \notin {"compose", "sql_subquery", "returned", "composed"}

(***************************************************************************)
(* C8: clickhouse_sql never mutates the Statement it renders: across any   *)
(* sequence of calls, in either mode, selects, joins and create_table stay *)
(* as they were, and rendering the same Statement again in the same mode   *)
(* returns the same text.                                                  *)
(***************************************************************************)
C8_RenderingLeavesTheStatement ==
    [][/\ statement' = statement
       /\ (pc = "returned" /\ stack = <<>> /\ results[reverse_nesting] # None)
            => sql' = results[reverse_nesting]]_vars

\* A second call in the same mode is about to return.
C8_Witness ==
    /\ pc = "returned"
    /\ stack = <<>>
    /\ results[reverse_nesting] # None
    /\ results[~reverse_nesting] # None
    /\ NJoins = 2
    /\ selects_working = <<>>
    /\ TheStatement.selects # <<>>

(***************************************************************************)
(* C10: for every validated Statement with at least one select,            *)
(* composition terminates: every step of it lowers the work that remains   *)
(* and none panics.  At the entry of every sql_subquery invocation  *)
(* the working queues hold one more select than joins; no invocation       *)
(* removes from an empty queue or indexes past the end; every invocation   *)
(* but the base case pops one join and one select (two selects at the      *)
(* innermost level); the invocations number joins.len() for two selects or *)
(* more and one for a single select; and for two selects or more both      *)
(* queues are empty when the outermost invocation returns.                 *)
(***************************************************************************)
Rendering == pc \in {"sql_subquery", "returned"}

OutermostReturned == (pc = "returned" /\ stack = <<>>) \/ pc = "composed"

C10_AtEntry ==
    pc = "sql_subquery" =>
        /\ Len(selects_working) = Len(joins_working) + 1
        /\ Len(stack) = invocations
        /\ invocations < IF NJoins = 0 THEN 1 ELSE NJoins

C10_NoPanic == (pc = "panicked") => (NSelects = 0 /\ invocations = 0)

C10_AtReturn ==
    OutermostReturned =>
        /\ invocations = IF NSelects >= 2 THEN NJoins ELSE 1
        /\ NSelects >= 2 => (selects_working = <<>> /\ joins_working = <<>>)

C10_Pops ==
    (pc = "sql_subquery") =>
        IF joins_working = <<>>
        THEN /\ selects_working' = selects_working
             /\ joins_working' = joins_working
             /\ pc' = "returned"
        ELSE /\ joins_working' = Tail(joins_working)
             /\ \/ pc' = "sql_subquery" /\ selects_working' = Tail(selects_working)
                \/ /\ pc' = "returned"
                   /\ Len(selects_working) = 2
                   /\ selects_working' = <<>>

\* The work that remains: a variant of the recursion.
Remaining ==
    2 * Len(joins_working) + Len(stack)
    + (CASE pc = "sql_subquery" -> 2 [] pc = "returned" -> 1 [] OTHER -> 0)

C10_Progress == Rendering => (Remaining' < Remaining /\ pc' # "panicked")

C10_CompositionTerminates ==
    /\ [](C10_AtEntry /\ C10_NoPanic /\ C10_AtReturn)
    /\ [][C10_Pops /\ C10_Progress]_vars

C10_Witness ==
    /\ pc = "composed"
    /\ NSelects = 3
    /\ invocations = 2
    /\ selects_working = <<>>
    /\ joins_working = <<>>

(***************************************************************************)
(* C7: in main (read the file, parse the configuration, convert it to a    *)
(* Statement, validate, compose, print) every failure happens before       *)
(* composition starts and before anything is printed: a run that ends in   *)
(* failure has emitted no SQL, and SQL is printed only after the           *)
(* conversion and validate have both succeeded.                            *)
(***************************************************************************)
Failed == pc \in {"exit_err", "panicked"} \/ failure # None

CompositionStarted ==
    \/ pc \in {"sql_subquery", "returned", "composed", "exit_ok"}
    \/ invocations > 0
    \/ sql # None
    \/ stdout # <<>>

C7_FailuresPrecedeComposition ==
    /\ Failed => (~CompositionStarted /\ stdout = <<>> /\ pc # "exit_ok")
    /\ CompositionStarted => (statement # None /\ validated = Some("Ok") /\ ~Failed)
    /\ stdout # <<>> => (sql # None /\ stdout = sql[1] /\ pc = "exit_ok")
    /\ pc = "exit_err" => failure # None

\* validate has refused a converted Statement, and nothing was printed.
C7_Witness ==
    /\ pc = "exit_err"
    /\ statement # None
    /\ validated = Some("Err")
    /\ NSelects = 3
    /\ NJoins = 1
    /\ stdout = <<>>

(***************************************************************************)
(* C9, as claimed: a join entry "key::::type" has its type token matched   *)
(* whatever its case (inner, left, right, outer, "Inner" included) and     *)
(* mapped to that join type; any other token fails the conversion; the     *)
(* configured global type is used exactly when the entry holds no "::::";  *)
(* the key is kept verbatim.                                               *)
(***************************************************************************)
UpperLetters == "ABCDEFGHIJKLMNOPQRSTUVWXYZ"

LowerLetters == "abcdefghijklmnopqrstuvwxyz"

RECURSIVE ToLower(_)
ToLower(s) ==
    IF s = "" THEN ""
    ELSE LET c == SubSeq(s, 1, 1)
             i == Find(UpperLetters, c)
         IN  (IF i = 0 THEN c ELSE SubSeq(LowerLetters, i, i))
             \o ToLower(SubSeq(s, 2, Len(s)))

\* The join types the token names, by the rule Names(token, type).
Named(token, Names(_, _)) == {t \in JoinType : Names(token, t)}

NamesAnyCase(token, t) == ToLower(token) = ToLower(JoinTypeDisplay(t))

NamesLowerOrUpper(token, t) ==
    token \in {ToLower(JoinTypeDisplay(t)), JoinTypeDisplay(t)}

\* What the entry converts to, by the rule Names.
ExpectedJoin(entry, global_join_type, Names(_, _)) ==
    LET at == Find(entry, "::::")
        key == IF at = 0 THEN entry ELSE SubSeq(entry, 1, at - 1)
        after == SubSeq(entry, at + 4, Len(entry))
        next == Find(after, "::::")
        token == IF next = 0 THEN after ELSE SubSeq(after, 1, next - 1)
    IN  IF at = 0 THEN Ok(<<key, global_join_type>>)
        ELSE IF Named(token, Names) = {} THEN Err("unknown join type")
        ELSE Ok(<<key, CHOOSE t \in Named(token, Names) : TRUE>>)

\* try_from has run on a configuration whose selects all convert.
JoinsConverted ==
    /\ statement_config # None
    /\ pc \in {"validate", "exit_err"}
    /\ \A i \in DOMAIN statement_config[1].selects :
          \A k \in DOMAIN statement_config[1].selects[i].projections :
              Len(Split(statement_config[1].selects[i].projections[k], " as ")) <= 2

ConfiguredJoins ==
    IF statement_config[1].joins = None THEN <<>> ELSE statement_config[1].joins[1]

JoinsConvertBy(Names(_, _)) ==
    LET expected == [i \in DOMAIN ConfiguredJoins |->
                        ExpectedJoin(ConfiguredJoins[i],
                                     statement_config[1].global_join_type, Names)]
    IN  IF \A i \in DOMAIN expected : expected[i].ok
        THEN /\ statement # None
             /\ statement[1].joins = [i \in DOMAIN expected |-> expected[i].val]
        ELSE /\ statement = None
             /\ pc = "exit_err"
             /\ failure # None

C9_TypeMatchedInAnyCase == JoinsConverted => JoinsConvertBy(NamesAnyCase)

(***************************************************************************)
(* C9, amended: the type token of a join entry "key::::type" is accepted   *)
(* only in all-lowercase or all-uppercase spelling (inner/INNER,           *)
(* left/LEFT, right/RIGHT, outer/OUTER) and mapped to that join type; any  *)
(* other token, mixed case such as "Inner" included, fails the conversion; *)
(* the configured global type is used exactly when the entry holds no      *)
(* "::::"; the key is kept verbatim.                                       *)
(***************************************************************************)
C9_TypeMatchedInLowerOrUpperCase == JoinsConverted => JoinsConvertBy(NamesLowerOrUpper)

C9_Witness ==
    /\ JoinsConverted
    /\ statement # None
    /\ statement_config[1].global_join_type = "Left"
    /\ ConfiguredJoins = <<"id", "(id, val)::::OUTER">>
    /\ TheStatement.joins = << <<"id", "Left">>, <<"(id, val)", "Outer">> >>

=============================================================================
